---------------------------- MODULE Spec2Model ----------------------------
(***************************************************************************)
(* Audio Flamingo music service: the FastAPI upload handlers of            *)
(* modal_deploy/modal_app.py (temp file life cycle, error boundary,        *)
(* result shapes) and the command line client of musicmind.py (argument    *)
(* checks, the single HTTP round trip, exit codes).                        *)
(*                                                                         *)
(* Spec       : NumReq concurrent requests against the upload routes.      *)
(* ClientSpec : one run of the client's main().                            *)
(***************************************************************************)
EXTENDS Integers, FiniteSets, Sequences, TLC

(* ------------------------------ bounds --------------------------------- *)
\* concurrent upload requests in flight
NumReq == 2
\* largest tempo (bpm, scaled) librosa.beat.beat_track reports in the model
MaxTempo == 1
\* librosa.load(audio_path, sr=None, duration=30): at most 30 seconds are loaded
ClipLimit == 30
\* cap on the HTTP requests one client run may send
MaxSend == 2

Requests == 1..NumReq
\* distinct names tempfile can hand out; one per request slot suffices
Names == 1..NumReq
Tempos == 0..MaxTempo
\* len(y) / sr of a clip that loads: the clips of the model are at least
\* ClipLimit seconds long, so the loaded part lasts ClipLimit seconds
Durations == {ClipLimit}
Texts == {"text"}

VARIABLES
  \* ---- server (modal_app.py, fastapi_app) ----
  pc,           \* position of each request's handler
  route,        \* route the request was sent to
  tmp_path,     \* tmp.name / tmp_path of the handler, 0 before creation
  disk,         \* name -> request whose NamedTemporaryFile created it, 0 = absent
  result,       \* dict returned by handler.<method>.remote(...)
  extract_failed, \* the librosa try block of analyze_music raised
  response,     \* the JSONResponse the handler returned
  escaped,      \* an exception left the handler function
  \* ---- client (musicmind.py, main) ----
  cpc,          \* position inside main()
  args,         \* sys.argv as seen by argparse
  sent,         \* HTTP requests issued through self.session
  exit_code,    \* process exit status, -1 while running
  out,          \* what has been printed: subset of {"result", "error"}
  failure,      \* which failure, if any, the run met
  received,     \* what came back for the request: kind and HTTP status
  crashed       \* an exception left main()

svars == <<pc, route, tmp_path, disk, result, extract_failed, response, escaped>>
cvars == <<cpc, args, sent, exit_code, out, failure, received, crashed>>
vars == <<pc, route, tmp_path, disk, result, extract_failed, response, escaped,
          cpc, args, sent, exit_code, out, failure, received, crashed>>

(* =============================== server ================================ *)

UploadRoutes == {"/analyze", "/party-vibe", "/transcribe", "/caption"}

NoResult == [pending |-> TRUE]
NoResponse == [status |-> 0, body |-> [pending |-> TRUE]]

\* analyze_music with the except branch marking a failed extraction by a
\* sentinel (tempo = -1) instead of zeroing tempo and duration
analyze_music_Sentinel(text, featOk, tempo, dur) ==
  LET t == IF featOk THEN tempo ELSE -1
      d == IF featOk THEN dur ELSE 0
  IN [analysis |-> text,
      tempo_bpm |-> IF t # 0 THEN t ELSE 0,
      duration_seconds |-> d]

\* analyze_music: generated text, then the try/except around librosa.
\* featOk = FALSE is the except branch (tempo = 0, duration = 0).
analyze_music(text, featOk, tempo, dur) ==
  LET t == IF featOk THEN tempo ELSE 0
      d == IF featOk THEN dur ELSE 0
  IN [analysis |-> text,
      tempo_bpm |-> IF t # 0 THEN t ELSE 0,
      duration_seconds |-> d]

\* party_vibe_check without result["vibe_check"] = True
party_vibe_check_NoFlag(text, featOk, tempo, dur) ==
  analyze_music(text, featOk, tempo, dur)

party_vibe_check(text, featOk, tempo, dur) ==
  LET r == analyze_music(text, featOk, tempo, dur)
  IN [analysis |-> r.analysis, tempo_bpm |-> r.tempo_bpm,
      duration_seconds |-> r.duration_seconds, vibe_check |-> TRUE]

transcribe_lyrics(text) == [lyrics |-> text]

generate_caption(text, featOk, tempo, dur) ==
  analyze_music(text, featOk, tempo, dur)

\* the method each route hands the temp path to
RouteMethod(rt, text, featOk, tempo, dur) ==
  CASE rt = "/analyze"    -> analyze_music(text, featOk, tempo, dur)
    [] rt = "/party-vibe" -> party_vibe_check(text, featOk, tempo, dur)
    [] rt = "/transcribe" -> transcribe_lyrics(text)
    [] rt = "/caption"    -> generate_caption(text, featOk, tempo, dur)

\* a temp file opened under any name, taken or not (no O_EXCL, a fixed path)
FreshNames_Any(d) == Names

\* names tempfile may pick: mkstemp opens with O_EXCL, never an existing file
FreshNames(d) == {n \in Names : d[n] = 0}

JSONResponse(content, status_code) == [status |-> status_code, body |-> content]

ServerInit ==
  /\ pc = [r \in Requests |-> "idle"]
  /\ route = [r \in Requests |-> "none"]
  /\ tmp_path = [r \in Requests |-> 0]
  /\ disk = [n \in Names |-> 0]
  /\ result = [r \in Requests |-> NoResult]
  /\ extract_failed = [r \in Requests |-> FALSE]
  /\ response = [r \in Requests |-> NoResponse]
  /\ escaped = [r \in Requests |-> FALSE]

\* with tempfile.NamedTemporaryFile(delete=False, suffix=".wav") as tmp:
CreateTemp(r) ==
  /\ pc[r] = "idle"
  /\ \E rt \in UploadRoutes : route' = [route EXCEPT ![r] = rt]
  /\ \E n \in FreshNames(disk) :
       /\ disk' = [disk EXCEPT ![n] = r]
       /\ tmp_path' = [tmp_path EXCEPT ![r] = n]
  /\ pc' = [pc EXCEPT ![r] = "opened"]
  /\ UNCHANGED <<result, extract_failed, response, escaped>>
  /\ UNCHANGED cvars

\* content = await file.read()
ReadUpload(r) ==
  /\ pc[r] = "opened"
  /\ \/ /\ pc' = [pc EXCEPT ![r] = "read"]
        /\ UNCHANGED escaped
     \/ \* read raises: the with block closes tmp (delete=False keeps the
        \* file) and the exception leaves the handler before the try
        /\ pc' = [pc EXCEPT ![r] = "done"]
        /\ escaped' = [escaped EXCEPT ![r] = TRUE]
  /\ UNCHANGED <<route, tmp_path, disk, result, extract_failed, response>>
  /\ UNCHANGED cvars

\* tmp.write(content); tmp_path = tmp.name; end of the with block
WriteTemp(r) ==
  /\ pc[r] = "read"
  /\ \/ /\ pc' = [pc EXCEPT ![r] = "stored"]
        /\ UNCHANGED escaped
     \/ \* write (or the flush on close) raises: same path as a failed read
        /\ pc' = [pc EXCEPT ![r] = "done"]
        /\ escaped' = [escaped EXCEPT ![r] = TRUE]
  /\ UNCHANGED <<route, tmp_path, disk, result, extract_failed, response>>
  /\ UNCHANGED cvars

\* try: result = handler.<method>.remote(tmp_path ...)   -- call issued
IssueInference(r) ==
  /\ pc[r] = "stored"
  /\ pc' = [pc EXCEPT ![r] = "inferring"]
  /\ UNCHANGED <<route, tmp_path, disk, result, extract_failed, response, escaped>>
  /\ UNCHANGED cvars

\* the remote method returns; return JSONResponse(result)
InferenceReturns(r) ==
  /\ pc[r] = "inferring"
  /\ \E text \in Texts, featOk \in BOOLEAN, tempo \in Tempos, dur \in Durations :
       LET res == RouteMethod(route[r], text, featOk, tempo, dur) IN
       /\ result' = [result EXCEPT ![r] = res]
       /\ extract_failed' = [extract_failed EXCEPT ![r] =
                               (route[r] # "/transcribe") /\ ~featOk]
       /\ response' = [response EXCEPT ![r] = JSONResponse(res, 200)]
  /\ pc' = [pc EXCEPT ![r] = "finally"]
  /\ UNCHANGED <<route, tmp_path, disk, escaped>>
  /\ UNCHANGED cvars

\* the remote method raises (apply_chat_template, generate, batch_decode);
\* except Exception as e: return JSONResponse({"error": str(e)}, status_code=500)
InferenceRaises(r) ==
  /\ pc[r] = "inferring"
  /\ response' = [response EXCEPT ![r] = JSONResponse([error |-> "str(e)"], 500)]
  /\ pc' = [pc EXCEPT ![r] = "finally"]
  /\ UNCHANGED <<route, tmp_path, disk, result, extract_failed, escaped>>
  /\ UNCHANGED cvars

\* finally: os.unlink(tmp_path)
Unlink(r) ==
  /\ pc[r] = "finally"
  /\ \/ \* the file is there and is removed, whoever created it
        /\ disk[tmp_path[r]] # 0
        /\ disk' = [disk EXCEPT ![tmp_path[r]] = 0]
        /\ UNCHANGED <<response, escaped>>
     \/ \* os.unlink raises OSError: the exception replaces the return value
        /\ escaped' = [escaped EXCEPT ![r] = TRUE]
        /\ response' = [response EXCEPT ![r] = NoResponse]
        /\ UNCHANGED disk
  /\ pc' = [pc EXCEPT ![r] = "done"]
  /\ UNCHANGED <<route, tmp_path, result, extract_failed>>
  /\ UNCHANGED cvars


ServerStep(r) ==
  \/ CreateTemp(r)
  \/ ReadUpload(r)
  \/ WriteTemp(r)
  \/ IssueInference(r)
  \/ InferenceReturns(r)
  \/ InferenceRaises(r)
  \/ Unlink(r)

(* =============================== client ================================ *)

Commands == {"analyze", "party-vibe", "transcribe", "caption", "health"}
UploadCommands == Commands \ {"health"}

\* argv: the command word ("" = none given, "remix" = not among the choices)
ArgvCommands == Commands \cup {"", "remix"}
\* argv: the audio_file positional ("" = not given)
ArgvFiles == {"", "missing.mp3", "song.mp3"}
\* the files Path(...).exists() finds
ExistingFiles == {"song.mp3"}

Statuses == {200, 404, 500, 503}
\* the keys of the JSON object in a response body
BodyKeys == {{"analysis", "tempo_bpm", "duration_seconds"},
             {"analysis", "tempo_bpm", "duration_seconds", "vibe_check"},
             {"analysis"},
             {"lyrics"},
             {"status", "model", "cached"},
             {"error"}}

NothingReceived == [kind |-> "none", status |-> 0]

\* requests.Response.raise_for_status: HTTPError for 4xx and 5xx
raise_for_status(status) == status >= 400 /\ status < 600

\* the keys main() reads, in print order, when --json is not given
PrintedKeys(command) ==
  CASE command = "analyze"    -> <<"analysis", "tempo_bpm", "duration_seconds">>
    [] command = "party-vibe" -> <<"analysis", "tempo_bpm">>
    [] command = "transcribe" -> <<"lyrics">>
    [] command = "caption"    -> <<"analysis">>
    [] command = "health"     -> <<"model">>

\* printing the result: json.dumps of the whole object, or the keys in order
\* until one is missing (KeyError).  shown: some result field reached stdout.
Render(command, json, keys) ==
  LET want == PrintedKeys(command) IN
  IF json THEN [ok |-> TRUE, shown |-> TRUE]
  ELSE [ok |-> \A i \in 1..Len(want) : want[i] \in keys,
        shown |-> want[1] \in keys]

ClientInit ==
  /\ cpc = "start"
  /\ args \in [command : ArgvCommands, audio_file : ArgvFiles, json : BOOLEAN]
  /\ sent = 0
  /\ exit_code = -1
  /\ out = {}
  /\ failure = "none"
  /\ received = NothingReceived
  /\ crashed = FALSE

\* the exception classes the client can meet
RequestExceptions == {"Timeout", "ConnectionError", "HTTPError", "JSONDecodeError"}
OtherExceptions == {"KeyError", "OSError"}

\* the process ends with status code after printing `printed`
Exit(code, what, printed) ==
  /\ cpc' = "exited"
  /\ exit_code' = code
  /\ failure' = what
  /\ out' = out \cup printed
  /\ UNCHANGED crashed

\* the health branch catching connection problems only
Caught_HealthNarrow(command, exc) ==
  IF command = "health"
  THEN exc \in {"Timeout", "ConnectionError"}
  ELSE exc \in RequestExceptions \/ exc \in OtherExceptions

\* the except clauses around the call: health has `except Exception`,
\* the upload commands `except RequestException` then `except Exception`
Caught(command, exc) ==
  IF command = "health"
  THEN exc \in RequestExceptions \cup OtherExceptions
  ELSE exc \in RequestExceptions \/ exc \in OtherExceptions

\* exc is raised inside the try block after `printed` reached stdout:
\* a handler prints the error and calls sys.exit(1); an exception no
\* handler catches ends the process with a traceback (status 1)
Raise(exc, what, printed) ==
  IF Caught(args.command, exc)
  THEN Exit(1, what, printed \cup {"error"})
  ELSE /\ cpc' = "exited"
       /\ exit_code' = 1
       /\ failure' = what
       /\ out' = out \cup printed
       /\ crashed' = TRUE

\* args = parser.parse_args(): command is required and limited to choices;
\* argparse reports a usage error on stderr and exits with status 2
ParseArgs ==
  /\ cpc = "start"
  /\ IF args.command \in Commands
     THEN /\ cpc' = "parsed"
          /\ UNCHANGED <<exit_code, failure, out, crashed>>
     ELSE Exit(2, "usage", {})
  /\ UNCHANGED <<args, sent, received>>
  /\ UNCHANGED svars

\* if args.command == 'health': result = mind.health_check()  -- GET issued
HealthCheck ==
  /\ cpc = "parsed"
  /\ args.command = "health"
  /\ sent < MaxSend
  /\ sent' = sent + 1
  /\ cpc' = "waiting"
  /\ UNCHANGED <<args, exit_code, out, failure, received, crashed>>
  /\ UNCHANGED svars

\* the file-not-found branch printing its message and returning (status 0)
CheckAudioFile_NotFoundReturns ==
  /\ cpc = "parsed"
  /\ args.command # "health"
  /\ IF args.audio_file = ""
     THEN Exit(1, "no_audio_file", {"error"})
     ELSE IF args.audio_file \notin ExistingFiles
          THEN Exit(0, "file_not_found", {"error"})
          ELSE /\ cpc' = "checked"
               /\ UNCHANGED <<exit_code, failure, out, crashed>>
  /\ UNCHANGED <<args, sent, received>>
  /\ UNCHANGED svars

\* the missing-argument branch printing its message and returning (status 0)
CheckAudioFile_MissingArgReturns ==
  /\ cpc = "parsed"
  /\ args.command # "health"
  /\ IF args.audio_file = ""
     THEN Exit(0, "no_audio_file", {"error"})
     ELSE IF args.audio_file \notin ExistingFiles
          THEN Exit(1, "file_not_found", {"error"})
          ELSE /\ cpc' = "checked"
               /\ UNCHANGED <<exit_code, failure, out, crashed>>
  /\ UNCHANGED <<args, sent, received>>
  /\ UNCHANGED svars

\* if not args.audio_file: ... sys.exit(1)
\* if not Path(args.audio_file).exists(): ... sys.exit(1)
CheckAudioFile ==
  /\ cpc = "parsed"
  /\ args.command # "health"
  /\ IF args.audio_file = ""
     THEN Exit(1, "no_audio_file", {"error"})
     ELSE IF args.audio_file \notin ExistingFiles
          THEN Exit(1, "file_not_found", {"error"})
          ELSE /\ cpc' = "checked"
               /\ UNCHANGED <<exit_code, failure, out, crashed>>
  /\ UNCHANGED <<args, sent, received>>
  /\ UNCHANGED svars

\* with open(audio_path, 'rb') as f: ... self.session.post(...)  -- POST issued
\* open may raise OSError (unreadable, removed meanwhile): except Exception
OpenAndPost ==
  /\ cpc = "checked"
  /\ \/ /\ args.audio_file \in ExistingFiles
        /\ sent < MaxSend
        /\ sent' = sent + 1
        /\ cpc' = "waiting"
        /\ UNCHANGED <<exit_code, failure, out, crashed>>
     \/ /\ Raise("OSError", "open", {})
        /\ UNCHANGED sent
  /\ UNCHANGED <<args, received>>
  /\ UNCHANGED svars

\* the except block printing the error without calling sys.exit(1)
TransportError_NoExit ==
  /\ cpc = "waiting"
  /\ \E k \in {"Timeout", "ConnectionError"} :
       received' = [kind |-> k, status |-> 0]
  /\ Exit(0, "network", {"error"})
  /\ UNCHANGED <<args, sent>>
  /\ UNCHANGED svars

\* the except block sending the request again instead of giving up
TransportError_Retry ==
  /\ cpc = "waiting"
  /\ \E k \in {"Timeout", "ConnectionError"} :
       received' = [kind |-> k, status |-> 0]
  /\ cpc' = IF args.command = "health" THEN "parsed" ELSE "checked"
  /\ out' = out \cup {"error"}
  /\ UNCHANGED <<args, sent, exit_code, failure, crashed>>
  /\ UNCHANGED svars

\* the request raises Timeout or ConnectionError (no response arrives);
\* except Exception (health) / except RequestException (uploads): sys.exit(1)
TransportError ==
  /\ cpc = "waiting"
  /\ \E k \in {"Timeout", "ConnectionError"} :
       /\ received' = [kind |-> k, status |-> 0]
       /\ Raise(k, "network", {})
  /\ UNCHANGED <<args, sent>>
  /\ UNCHANGED svars

\* a response with an error status: response.raise_for_status() raises
\* HTTPError, a RequestException; the handler prints it and exits 1
HttpError ==
  /\ cpc = "waiting"
  /\ \E st \in Statuses :
       /\ raise_for_status(st)
       /\ received' = [kind |-> "response", status |-> st]
  /\ Raise("HTTPError", "http", {})
  /\ UNCHANGED <<args, sent>>
  /\ UNCHANGED svars

\* a response with a success status whose body is not JSON:
\* response.json() raises; caught, printed, exit 1
DecodeError ==
  /\ cpc = "waiting"
  /\ \E st \in Statuses :
       /\ ~raise_for_status(st)
       /\ received' = [kind |-> "response", status |-> st]
  /\ Raise("JSONDecodeError", "decode", {})
  /\ UNCHANGED <<args, sent>>
  /\ UNCHANGED svars

\* a response with a success status and a JSON object: print it
\* (KeyError on a missing key is caught by except Exception: exit 1)
PrintResult ==
  /\ cpc = "waiting"
  /\ \E st \in Statuses, keys \in BodyKeys :
       LET r == Render(args.command, args.json, keys) IN
       /\ ~raise_for_status(st)
       /\ received' = [kind |-> "response", status |-> st]
       /\ IF r.ok
          THEN Exit(0, "none", {"result"})
          ELSE Raise("KeyError", "render", IF r.shown THEN {"result"} ELSE {})
  /\ UNCHANGED <<args, sent>>
  /\ UNCHANGED svars

ClientStep ==
  \/ ParseArgs
  \/ HealthCheck
  \/ CheckAudioFile
  \/ OpenAndPost
  \/ TransportError
  \/ HttpError
  \/ DecodeError
  \/ PrintResult

(* =========================== specifications ============================ *)

\* the upload routes under NumReq concurrent requests; the client is not run
Init ==
  /\ ServerInit
  /\ ClientInit
  /\ args = [command |-> "health", audio_file |-> "", json |-> FALSE]

Next == \E r \in Requests : ServerStep(r)

Spec == Init /\ [][Next]_vars

\* one run of the client's main() on any command line
ClientBoot == ServerInit /\ ClientInit

ClientNext == ClientStep

ClientSpec == ClientBoot /\ [][ClientNext]_vars

(* =============================== claims ================================ *)

\* the temp file request r created is still on disk
Leaked(r) == tmp_path[r] # 0 /\ disk[tmp_path[r]] = r

\* C1: every handler execution that created a temp file has removed it by
\* the time it ends, whether the request succeeded or failed at any step.
C1_TempFileRemoved ==
  \A r \in Requests : pc[r] = "done" => ~Leaked(r)

\* C2: every internal failure of an upload route is answered at the handler
\* boundary with a JSON error object and status 500; no exception leaves the
\* handler.
C2_NoFailureEscapes ==
  \A r \in Requests :
    pc[r] = "done" =>
      /\ ~escaped[r]
      /\ response[r].status \in {200, 500}
      /\ response[r].status = 500 => DOMAIN response[r].body = {"error"}

AnalysisRoutes == {"/analyze", "/party-vibe", "/caption"}

\* C7: every result of analyze_music has tempo_bpm >= 0; when the feature
\* extraction failed the call still returns a normal result with tempo_bpm = 0,
\* duration_seconds = 0 and the analysis text, and the handler answers it
\* with status 200.
C7_TempoNonNegative ==
  \A r \in Requests :
    (route[r] \in AnalysisRoutes /\ "tempo_bpm" \in DOMAIN result[r]) =>
      /\ result[r].tempo_bpm >= 0
      /\ extract_failed[r] =>
           /\ result[r].tempo_bpm = 0
           /\ result[r].duration_seconds = 0
           /\ result[r].analysis \in Texts
           /\ "error" \notin DOMAIN result[r]
           /\ pc[r] = "finally" =>
                /\ response[r].status = 200
                /\ response[r].body = result[r]

C7_Witness ==
  \E r \in Requests :
    /\ route[r] = "/analyze"
    /\ extract_failed[r]
    /\ pc[r] = "finally"
    /\ response[r].status = 200
    /\ response[r].body.tempo_bpm = 0

\* C9: a successful response carries exactly the fields of its route:
\* /transcribe only lyrics; /analyze and /caption analysis, tempo_bpm and
\* duration_seconds; /party-vibe those three plus vibe_check = true.
C9_FieldSets ==
  \A r \in Requests :
    response[r].status = 200 =>
      LET keys == DOMAIN response[r].body IN
      /\ route[r] = "/transcribe" => keys = {"lyrics"}
      /\ route[r] \in {"/analyze", "/caption"} =>
           keys = {"analysis", "tempo_bpm", "duration_seconds"}
      /\ route[r] = "/party-vibe" =>
           /\ keys = {"analysis", "tempo_bpm", "duration_seconds", "vibe_check"}
           /\ response[r].body.vibe_check = TRUE

C9_Witness ==
  \E r1, r2 \in Requests :
    /\ pc[r1] = "done" /\ route[r1] = "/party-vibe"
    /\ response[r1].status = 200 /\ response[r1].body.vibe_check = TRUE
    /\ pc[r2] = "done" /\ route[r2] = "/transcribe"
    /\ response[r2].status = 200

\* C10: under any interleaving, from the moment a request's inference call
\* is issued until its handler unlinks, the file at its tmp_path is the one
\* it created: no other request removed or replaced it, and the file a
\* handler unlinks is its own.
C10_OwnFileOnly ==
  \A r \in Requests :
    pc[r] \in {"stored", "inferring", "finally"} => disk[tmp_path[r]] = r

\* a finished request's path names the live file of a request in inference
C10_Witness ==
  \E r1, r2 \in Requests :
    /\ r1 # r2
    /\ pc[r1] = "done" /\ ~escaped[r1]
    /\ pc[r2] = "inferring"
    /\ tmp_path[r1] = tmp_path[r2]

MissingFile == args.audio_file # "" /\ args.audio_file \notin ExistingFiles

\* C3 as stated: for all five commands, a file path that does not exist
\* ends the run with exit code 1 and no network call.
C3_AllCommands ==
  (args.command \in Commands /\ MissingFile) =>
    /\ sent = 0
    /\ cpc = "exited" => exit_code = 1

\* C3 amended: for the four upload commands, a file path that does not
\* exist ends the run with exit code 1 and no network call is ever made.
C3_UploadCommands ==
  (args.command \in UploadCommands /\ MissingFile) =>
    /\ sent = 0
    /\ cpc = "exited" => (exit_code = 1 /\ "error" \in out)

C3_Witness ==
  /\ args.command = "analyze" /\ MissingFile
  /\ cpc = "exited" /\ exit_code = 1 /\ failure = "file_not_found"

\* C4: without an audio file argument every command but health exits with
\* code 1 and sends nothing; health without an audio file sends its probe.
C4_AudioFileRequired ==
  args.audio_file = "" =>
    /\ args.command \in UploadCommands =>
         /\ sent = 0
         /\ cpc = "exited" => exit_code = 1
    /\ (args.command = "health" /\ cpc \in {"waiting", "exited"}) => sent = 1

C4_Witness ==
  /\ args.command = "caption" /\ args.audio_file = ""
  /\ cpc = "exited" /\ exit_code = 1 /\ failure = "no_audio_file"

\* C5 as stated: the exit code is 1 on any failure, a missing or invalid
\* command included, and 0 otherwise; no other code is produced.
C5_ZeroOrOne ==
  cpc = "exited" =>
    /\ exit_code \in {0, 1}
    /\ exit_code = 1 <=> failure # "none"

\* C5 amended: the exit code is 2 when argparse rejects the command line
\* (missing or invalid command), 1 on any failure met after parsing, and 0
\* otherwise; no other code is produced.
C5_ExitCodes ==
  cpc = "exited" =>
    /\ exit_code \in {0, 1, 2}
    /\ exit_code = 2 <=> failure = "usage"
    /\ exit_code = 1 <=> failure \notin {"none", "usage"}
    /\ exit_code = 0 <=> failure = "none"
    /\ failure = "usage" <=> args.command \notin Commands

C5_Witness ==
  /\ cpc = "exited" /\ args.command = "remix"
  /\ exit_code = 2 /\ sent = 0

\* C6: a 5xx response makes every command print an error and exit with
\* code 1, with no unhandled exception and no result printed.
C6_ServerErrorExitsOne ==
  (received.kind = "response" /\ received.status >= 500) =>
    /\ cpc = "exited"
    /\ exit_code = 1
    /\ out = {"error"}
    /\ ~crashed

C6_Witness ==
  /\ args.command = "health"
  /\ received.kind = "response" /\ received.status = 503
  /\ cpc = "exited" /\ exit_code = 1

\* C8: one client run issues at most one HTTP request; after a timeout, a
\* connection error or an error status nothing is sent again.
C8_AtMostOneRequest ==
  /\ sent <= 1
  /\ received.kind # "none" => (sent = 1 /\ cpc = "exited")

C8_Witness ==
  /\ cpc = "exited" /\ sent = 1
  /\ received.kind = "Timeout" /\ exit_code = 1

=============================================================================
